---- MODULE Spec2Model ----
\* A model of setup.py of SpargeAttn: the build-configuration pass that
\* resolves the target GPU architectures, validates the nvcc version,
\* assembles the compiler flags, runs the instantiation generators,
\* collects the sources and declares the extension modules.
\*
\* Strings the script takes apart character by character (the architecture
\* list, the capabilities) are sequences of one-character strings; strings it
\* only builds (flags, paths) are sequences of chunks, a literal being a
\* one-chunk sequence.
EXTENDS Integers, Sequences, FiniteSets, TLC

\* ---------------------------------------------------------------- bounds
\* The largest number of entries of TORCH_CUDA_ARCH_LIST the model enumerates.
MaxEntries == 2
\* The largest number of local devices torch.cuda.device_count() reports.
MaxDevices == 2

\* ------------------------------------------------------- string helpers
None == <<"None">>

Lit(s) == <<s>>

\* str.replace(old, new) for one-character old and new
Replace(s, old, new) == [i \in 1..Len(s) |-> IF s[i] = old THEN new ELSE s[i]]

RECURSIVE SplitFrom(_, _, _)
\* the pieces of s from position i on, cur being the piece read so far
SplitFrom(s, sep, cur) ==
    IF s = <<>> THEN <<cur>>
    ELSE IF Head(s) = sep THEN <<cur>> \o SplitFrom(Tail(s), sep, <<>>)
    ELSE SplitFrom(Tail(s), sep, Append(cur, Head(s)))

\* str.split(sep): "a;;b" gives ["a", "", "b"] and "" gives [""]
Split(s, sep) == SplitFrom(s, sep, <<>>)

\* str.startswith(prefix)
StartsWith(s, prefix) ==
    /\ Len(s) >= Len(prefix)
    /\ SubSeq(s, 1, Len(prefix)) = prefix

\* str.endswith(suffix)
EndsWith(s, suffix) ==
    /\ Len(s) >= Len(suffix)
    /\ SubSeq(s, Len(s) - Len(suffix) + 1, Len(s)) = suffix

Digit(d) == <<"0", "1", "2", "3", "4", "5", "6", "7", "8", "9">>[d + 1]

RECURSIVE DecStr(_)
\* the decimal digits of a natural number, as f"{n}" formats it
DecStr(n) == IF n < 10 THEN <<Digit(n)>> ELSE DecStr(n \div 10) \o <<Digit(n % 10)>>

Range(s) == {s[i] : i \in 1..Len(s)}

\* how often x occurs in the list s
Count(s, x) == Cardinality({i \in 1..Len(s) : s[i] = x})

\* ------------------------------------------------ architecture catalog
PTX == <<"+", "P", "T", "X">>

SUPPORTED_ARCHS ==
    { <<"8", ".", "0">>, <<"8", ".", "6">>, <<"8", ".", "7">>,
      <<"8", ".", "9">>, <<"9", ".", "0">> }

valid_archs == SUPPORTED_ARCHS \cup {s \o PTX : s \in SUPPORTED_ARCHS}

\* torch_arch_list: the set of entries of the environment variable
torch_arch_list(env_arch_list) ==
    Range(Split(Replace(env_arch_list, " ", ";"), ";"))

\* a faulty arch_list that keeps every entry, supported or not
arch_list_unfiltered(env_arch_list) == torch_arch_list(env_arch_list)

\* arch_list: the entries that are supported
arch_list(env_arch_list) == torch_arch_list(env_arch_list) \cap valid_archs

\* invalid_arch_list: the entries that are dropped with a warning
invalid_arch_list(env_arch_list) == torch_arch_list(env_arch_list) \ valid_archs

\* f"{major}.{minor}" of a probed device capability
CapabilityStr(major, minor) == DecStr(major) \o <<".">> \o DecStr(minor)

\* a faulty test that lets generation 7 through
BelowMinimum_7(major) == major < 7

\* the test of the probing loop that rejects a device
BelowMinimum(major) == major < 8

\* ------------------------------------------------------ input domains
\* entries a user may write in TORCH_CUDA_ARCH_LIST
Entries ==
    { <<"8", ".", "0">>, <<"8", ".", "9">>, <<"9", ".", "0">>,
      <<"9", ".", "0">> \o PTX, <<"7", ".", "5">>, <<>> }

Delimiters == {<<" ">>, <<";">>}

RECURSIVE Joined(_)
\* the strings of exactly n entries, each two separated by a delimiter
Joined(n) ==
    IF n = 1 THEN Entries
    ELSE {s \o d \o e : s \in Joined(n - 1), d \in Delimiters, e \in Entries}

\* the values of os.environ.get("TORCH_CUDA_ARCH_LIST", None)
EnvValues == {None} \cup UNION {Joined(n) : n \in 1..MaxEntries}

\* capabilities torch.cuda.get_device_capability may report
Capabilities == {<<7, 5>>, <<8, 0>>, <<8, 9>>, <<9, 0>>, <<10, 0>>}

DeviceLists == UNION {[1..n -> Capabilities] : n \in 0..MaxDevices}

\* ------------------------------------------------------ nvcc versions
\* packaging.version.Version of a release "X.Y", as the pair <<X, Y>>
Version(major, minor) == <<major, minor>>

\* Version.__lt__: releases compare component by component
VersionLess(a, b) == a[1] < b[1] \/ (a[1] = b[1] /\ a[2] < b[2])

\* the releases `nvcc -V` may report
Versions ==
    { Version(11, 8), Version(12, 0), Version(12, 1), Version(12, 4),
      Version(12, 10), Version(13, 0) }

NoVersion == Version(0, 0)

\* the capabilities the 12.4 checks look for
Is89(cc) == StartsWith(cc, <<"8", ".", "9">>)

\* a faulty test that compares for equality and so misses "9.0+PTX"
Is90_exact(cc) == cc = <<"9", ".", "0">>

Is90(cc) == StartsWith(cc, <<"9", ".", "0">>)

\* the error the version validation raises for a version and a set of
\* capabilities, "none" when it raises nothing
ValidationError(version, capabilities) ==
    IF VersionLess(version, Version(12, 0)) THEN "CUDA 12.0 or higher is required"
    ELSE IF VersionLess(version, Version(12, 4))
              /\ \E cc \in capabilities : Is89(cc)
         THEN "CUDA 12.4 or higher is required for compute capability 8.9"
    ELSE IF VersionLess(version, Version(12, 4))
              /\ \E cc \in capabilities : Is90(cc)
         THEN "CUDA 12.4 or higher is required for compute capability 9.0"
    ELSE "none"

\* ---------------------------------------------------------------- flags
CXX_FLAGS_BASE ==
    << Lit("-g"), Lit("-O3"), Lit("-fopenmp"), Lit("-lgomp"),
       Lit("-std=c++17"), Lit("-DENABLE_BF16") >>

NVCC_FLAGS_BASE ==
    << Lit("-O3"), Lit("-std=c++17"), Lit("-U__CUDA_NO_HALF_OPERATORS__"),
       Lit("-U__CUDA_NO_HALF_CONVERSIONS__"), Lit("--use_fast_math"),
       Lit("--threads=8"), Lit("-Xptxas=-v"), Lit("-diag-suppress=174"),
       Lit("-Xcompiler"), Lit("-include,cassert") >>

\* f"-D_GLIBCXX_USE_CXX11_ABI={ABI}"
AbiFlag(abi) == Lit("-D_GLIBCXX_USE_CXX11_ABI=") \o DecStr(abi)

\* capability[0] + capability[2]
RawNum(capability) == <<capability[1], capability[3]>>

IsNum90(num) == num = <<"9", "0">>

\* num after the special case of generation 9.0
Num(capability) ==
    IF IsNum90(RawNum(capability)) THEN <<"9", "0", "a">> ELSE RawNum(capability)

\* f"arch=compute_{num},code=sm_{num}"
SmPair(num) == Lit("arch=compute_") \o num \o Lit(",code=sm_") \o num

\* f"arch=compute_{num},code=compute_{num}"
PtxPair(num) == Lit("arch=compute_") \o num \o Lit(",code=compute_") \o num

WantsPTX(capability) == EndsWith(capability, PTX)

\* what one iteration of the flag loop appends to CXX_FLAGS
CxxContribution(capability) ==
    IF IsNum90(RawNum(capability)) THEN <<Lit("-DHAS_SM90")>> ELSE <<>>

\* what one iteration of the flag loop appends to NVCC_FLAGS
NvccContribution(capability) ==
    <<Lit("-gencode"), SmPair(Num(capability))>>
    \o (IF WantsPTX(capability)
        THEN <<Lit("-gencode"), PtxPair(Num(capability))>>
        ELSE <<>>)

\* ---------------------------------------------------------- file system
\* A file of a bucket is its path relative to the bucket root, a sequence of
\* characters.
\* Path.suffix: the part of the name from its last dot on
RECURSIVE Suffix(_)
Suffix(path) ==
    IF path = <<>> THEN <<>>
    ELSE IF Head(path) = "." /\ \A i \in 2..Len(path) : path[i] /= "."
         THEN path
    ELSE Suffix(Tail(path))

SM80 == "csrc/qattn/instantiations_sm80"

SM89 == "csrc/qattn/instantiations_sm89"

SM90 == "csrc/qattn/instantiations_sm90"

Buckets == {SM80, SM89, SM90}

GenScript == <<"g", ".", "p", "y">>

FileA == <<"a", ".", "c", "u">>

FileB == <<"b", ".", "c", "u">>

HeaderA == <<"a", ".", "h">>

\* what one run of a generator script leaves behind, with its exit status:
\* a complete run writes every instantiation, a failed one only part of them
GeneratorOutcomes ==
    { [status |-> 0, files |-> {FileA, FileB, HeaderA}],
      [status |-> 1, files |-> {FileB}] }

\* the orders in which the file system may enumerate a set of files
Enumerations(files) ==
    {e \in [1..Cardinality(files) -> files] :
        \A i, j \in 1..Cardinality(files) : e[i] = e[j] => i = j}

\* the files rglob('*.py') yields
PyFiles(dir) == {path \in dir : Suffix(path) = <<".", "p", "y">>}

\* the files get_instantiations keeps
CuFiles(dir) == {path \in dir : Suffix(path) = <<".", "c", "u">>}

\* os.path.join(src_dir, str(path.relative_to(base_path)))
JoinPath(src_dir, rel) == Lit(src_dir) \o Lit("/") \o rel

\* get_instantiations(src_dir), the file system enumerating in order `enum`
get_instantiations(src_dir, enum) ==
    [i \in 1..Len(enum) |-> JoinPath(src_dir, enum[i])]

BASE_SOURCES ==
    << Lit("csrc/qattn/pybind.cpp"),
       Lit("csrc/qattn/qk_int_sv_f16_cuda_sm80.cu"),
       Lit("csrc/qattn/qk_int_sv_f8_cuda_sm89.cu") >>

SM90_SOURCE == Lit("csrc/qattn/qk_int_sv_f8_cuda_sm90.cu")

FUSED_SOURCES == <<Lit("csrc/fused/pybind.cpp"), Lit("csrc/fused/fused.cu")>>

\* CUDAExtension(name, sources, extra_compile_args, extra_link_args)
CUDAExtension(name, srcs, cxx, nvcc, link) ==
    [name |-> name, sources |-> srcs, cxx |-> cxx, nvcc |-> nvcc, link |-> link]

\* ---------------------------------------------------------------- state
VARIABLES
    pc,                    \* the statement of the script to run next
    err,                   \* the error that aborted the pass, "none" if none
    ABI,                   \* torch._C._GLIBCXX_USE_CXX11_ABI as 0 or 1
    CUDA_HOME,             \* TRUE when torch found a CUDA installation
    env_arch_list,         \* TORCH_CUDA_ARCH_LIST as read, None when unset
    warnings,              \* the entries warnings.warn reported as excluded
    compute_capabilities,  \* the resolved set of capability strings
    devices,               \* the capabilities of the local devices
    i,                     \* the device the probing loop is at
    nvcc_cuda_version,     \* the version nvcc reported
    pending,               \* the capabilities the flag loop has yet to visit
    HAS_SM90,
    CXX_FLAGS,
    NVCC_FLAGS,
    fs,                    \* the files of each instantiation bucket
    ran,                   \* the generator runs so far, with their exit status
    sources,
    ext_modules,
    setup_called           \* TRUE once setup() received ext_modules

vars ==
    << pc, err, ABI, CUDA_HOME, env_arch_list, warnings, compute_capabilities,
       devices, i, nvcc_cuda_version, pending, HAS_SM90, CXX_FLAGS, NVCC_FLAGS,
       fs, ran, sources, ext_modules, setup_called >>

resolutionVars == <<env_arch_list, warnings, compute_capabilities, devices, i>>

flagVars == <<pending, HAS_SM90, CXX_FLAGS, NVCC_FLAGS>>

buildVars == <<fs, ran, sources, ext_modules, setup_called>>

\* the module-level statements before the CUDA_HOME check
Init ==
    /\ pc = "cuda_home"
    /\ err = "none"
    /\ ABI \in {0, 1}
    /\ CUDA_HOME \in BOOLEAN
    /\ env_arch_list = None
    /\ warnings = {}
    /\ compute_capabilities = {}
    /\ devices = <<>>
    /\ i = 1
    /\ nvcc_cuda_version = NoVersion
    /\ pending = {}
    /\ HAS_SM90 = FALSE
    /\ CXX_FLAGS = Append(CXX_FLAGS_BASE, AbiFlag(ABI))
    /\ NVCC_FLAGS = Append(NVCC_FLAGS_BASE, AbiFlag(ABI))
    /\ fs = [b \in Buckets |-> {GenScript}]
    /\ ran = <<>>
    /\ sources = <<>>
    /\ ext_modules = <<>>
    /\ setup_called = FALSE

\* raise: the script stops with the exception
Raise(message) ==
    /\ pc' = "error"
    /\ err' = message

\* if CUDA_HOME is None: raise
CheckCudaHome ==
    /\ pc = "cuda_home"
    /\ IF CUDA_HOME
       THEN pc' = "get_torch_arch_list" /\ err' = err
       ELSE Raise("Cannot find CUDA_HOME")
    /\ UNCHANGED <<ABI, CUDA_HOME, resolutionVars, nvcc_cuda_version, flagVars, buildVars>>

\* compute_capabilities = get_torch_arch_list(), then the test whether to probe
GetTorchArchList ==
    /\ pc = "get_torch_arch_list"
    /\ \E value \in EnvValues :
        /\ env_arch_list' = value
        /\ IF value = None \/ torch_arch_list(value) = {}
           THEN /\ compute_capabilities' = {}
                /\ warnings' = warnings
                /\ pc' = "device_count"
                /\ err' = err
           ELSE IF arch_list(value) = {}
           THEN /\ compute_capabilities' = compute_capabilities
                /\ warnings' = warnings
                /\ Raise("None of the CUDA architectures is supported")
           ELSE /\ compute_capabilities' = arch_list(value)
                /\ warnings' = invalid_arch_list(value)
                /\ pc' = "nvcc"
                /\ err' = err
    /\ UNCHANGED <<ABI, CUDA_HOME, devices, i, nvcc_cuda_version, flagVars, buildVars>>

\* device_count = torch.cuda.device_count()
DeviceCount ==
    /\ pc = "device_count"
    /\ \E found \in DeviceLists :
        /\ devices' = found
        /\ i' = 1
        /\ pc' = IF found = <<>> THEN "nvcc" ELSE "probe"
    /\ UNCHANGED <<err, ABI, CUDA_HOME, env_arch_list, warnings, compute_capabilities,
                   nvcc_cuda_version, flagVars, buildVars>>

\* one iteration of the probing loop
ProbeDevice ==
    /\ pc = "probe"
    /\ LET major == devices[i][1]
           minor == devices[i][2]
       IN IF BelowMinimum(major)
          THEN /\ Raise("GPUs with compute capability below 8.0 are not supported")
               /\ UNCHANGED <<compute_capabilities, i>>
          ELSE /\ compute_capabilities' =
                      compute_capabilities \cup {CapabilityStr(major, minor)}
               /\ i' = i + 1
               /\ pc' = IF i = Len(devices) THEN "nvcc" ELSE "probe"
               /\ err' = err
    /\ UNCHANGED <<ABI, CUDA_HOME, env_arch_list, warnings, devices,
                   nvcc_cuda_version, flagVars, buildVars>>

\* nvcc_cuda_version = get_nvcc_cuda_version(CUDA_HOME): nvcc reports a
\* release, or the call raises (no nvcc, no "release" token)
GetNvccCudaVersion ==
    /\ pc = "nvcc"
    /\ \/ \E version \in Versions :
            /\ nvcc_cuda_version' = version
            /\ pc' = "check_gpus"
            /\ err' = err
       \/ /\ Raise("nvcc -V failed")
          /\ UNCHANGED nvcc_cuda_version
    /\ UNCHANGED <<ABI, CUDA_HOME, resolutionVars, flagVars, buildVars>>

\* if not compute_capabilities: raise
CheckGpusFound ==
    /\ pc = "check_gpus"
    /\ IF compute_capabilities = {}
       THEN Raise("No GPUs found") /\ UNCHANGED pending
       ELSE pc' = "validate" /\ err' = err /\ UNCHANGED pending
    /\ UNCHANGED <<ABI, CUDA_HOME, resolutionVars, nvcc_cuda_version,
                   HAS_SM90, CXX_FLAGS, NVCC_FLAGS, buildVars>>

\* the validation of the nvcc version
ValidateNvccVersion ==
    /\ pc = "validate"
    /\ LET error == ValidationError(nvcc_cuda_version, compute_capabilities)
       IN IF error = "none"
          THEN /\ pc' = "flags"
               /\ err' = err
               /\ pending' = compute_capabilities
          ELSE /\ Raise(error)
               /\ UNCHANGED pending
    /\ UNCHANGED <<ABI, CUDA_HOME, resolutionVars, nvcc_cuda_version,
                   HAS_SM90, CXX_FLAGS, NVCC_FLAGS, buildVars>>

\* one iteration of the flag loop, the set yielding any element not yet seen
AddCapabilityFlags ==
    /\ pc = "flags"
    /\ \E capability \in pending :
        /\ HAS_SM90' = (HAS_SM90 \/ IsNum90(RawNum(capability)))
        /\ CXX_FLAGS' = CXX_FLAGS \o CxxContribution(capability)
        /\ NVCC_FLAGS' = NVCC_FLAGS \o NvccContribution(capability)
        /\ pending' = pending \ {capability}
        /\ pc' = IF pending' = {} THEN "run_sm80" ELSE "flags"
    /\ UNCHANGED <<err, ABI, CUDA_HOME, resolutionVars, nvcc_cuda_version, buildVars>>

\* run_instantiations(src_dir): every generator script found under the
\* bucket is run with os.system, whose exit status the script does not read
run_instantiations(src_dir, next) ==
    \E py_files \in Enumerations(PyFiles(fs[src_dir])) :
    \E outcome \in [PyFiles(fs[src_dir]) -> GeneratorOutcomes] :
        /\ ran' = ran \o [k \in 1..Len(py_files) |->
                            [script |-> JoinPath(src_dir, py_files[k]),
                             status |-> outcome[py_files[k]].status]]
        /\ fs' = [fs EXCEPT ![src_dir] =
                    @ \cup UNION {outcome[f].files : f \in PyFiles(fs[src_dir])}]
        /\ pc' = next
        /\ UNCHANGED <<err, ABI, CUDA_HOME, resolutionVars, nvcc_cuda_version,
                       flagVars, sources, ext_modules, setup_called>>

\* ext_modules = []; run_instantiations("csrc/qattn/instantiations_sm80")
RunInstantiationsSm80 ==
    /\ pc = "run_sm80"
    /\ run_instantiations(SM80, "run_sm89")

\* run_instantiations("csrc/qattn/instantiations_sm89")
RunInstantiationsSm89 ==
    /\ pc = "run_sm89"
    /\ run_instantiations(SM89, "run_sm90")

\* run_instantiations("csrc/qattn/instantiations_sm90")
RunInstantiationsSm90 ==
    /\ pc = "run_sm90"
    /\ run_instantiations(SM90, "sources")

\* sources = [...] + get_instantiations(sm80) + get_instantiations(sm89),
\* each rglob yielding the files in the order the file system gives them
CollectSources ==
    /\ pc = "sources"
    /\ \E e80 \in Enumerations(CuFiles(fs[SM80])) :
       \E e89 \in Enumerations(CuFiles(fs[SM89])) :
            sources' = BASE_SOURCES \o get_instantiations(SM80, e80)
                                     \o get_instantiations(SM89, e89)
    /\ pc' = "sources_sm90"
    /\ UNCHANGED <<err, ABI, CUDA_HOME, resolutionVars, nvcc_cuda_version,
                   flagVars, fs, ran, ext_modules, setup_called>>

\* a faulty variant that appends the sm90 sources whatever HAS_SM90 is
Sm90Sources_always(has_sm90, e90) == <<SM90_SOURCE>> \o get_instantiations(SM90, e90)

\* what `if HAS_SM90:` appends to sources
Sm90Sources(has_sm90, e90) ==
    IF has_sm90 THEN <<SM90_SOURCE>> \o get_instantiations(SM90, e90) ELSE <<>>

\* if HAS_SM90: sources += [...]; sources += get_instantiations(sm90)
CollectSm90Sources ==
    /\ pc = "sources_sm90"
    /\ \E e90 \in Enumerations(CuFiles(fs[SM90])) :
            sources' = sources \o Sm90Sources(HAS_SM90, e90)
    /\ pc' = "qattn"
    /\ UNCHANGED <<err, ABI, CUDA_HOME, resolutionVars, nvcc_cuda_version,
                   flagVars, fs, ran, ext_modules, setup_called>>

\* qattn_extension = CUDAExtension(...); ext_modules.append(qattn_extension)
AppendQattnExtension ==
    /\ pc = "qattn"
    /\ ext_modules' = Append(ext_modules,
            CUDAExtension("spas_sage_attn._qattn", sources, CXX_FLAGS, NVCC_FLAGS,
                          <<Lit("-lcuda")>>))
    /\ pc' = "fused"
    /\ UNCHANGED <<err, ABI, CUDA_HOME, resolutionVars, nvcc_cuda_version,
                   flagVars, fs, ran, sources, setup_called>>

\* fused_extension = CUDAExtension(...); ext_modules.append(fused_extension)
AppendFusedExtension ==
    /\ pc = "fused"
    /\ ext_modules' = Append(ext_modules,
            CUDAExtension("spas_sage_attn._fused", FUSED_SOURCES, CXX_FLAGS,
                          NVCC_FLAGS, <<>>))
    /\ pc' = "setup"
    /\ UNCHANGED <<err, ABI, CUDA_HOME, resolutionVars, nvcc_cuda_version,
                   flagVars, fs, ran, sources, setup_called>>

\* setup(..., ext_modules=ext_modules, ...)
Setup ==
    /\ pc = "setup"
    /\ setup_called' = TRUE
    /\ pc' = "done"
    /\ UNCHANGED <<err, ABI, CUDA_HOME, resolutionVars, nvcc_cuda_version,
                   flagVars, fs, ran, sources, ext_modules>>

Next ==
    \/ CheckCudaHome
    \/ GetTorchArchList
    \/ DeviceCount
    \/ ProbeDevice
    \/ GetNvccCudaVersion
    \/ CheckGpusFound
    \/ ValidateNvccVersion
    \/ AddCapabilityFlags
    \/ RunInstantiationsSm80
    \/ RunInstantiationsSm89
    \/ RunInstantiationsSm90
    \/ CollectSources
    \/ CollectSm90Sources
    \/ AppendQattnExtension
    \/ AppendFusedExtension
    \/ Setup

Spec == Init /\ [][Next]_vars

\* =============================================================== claims
\* The statements below are written from the architecture catalog and the
\* version minimums as the specification gives them, not from the operators
\* the actions use.

\* the supported catalog, with and without the PTX suffix
Catalog ==
    { <<"8", ".", "0">>, <<"8", ".", "6">>, <<"8", ".", "7">>,
      <<"8", ".", "9">>, <<"9", ".", "0">>,
      <<"8", ".", "0", "+", "P", "T", "X">>, <<"8", ".", "6", "+", "P", "T", "X">>,
      <<"8", ".", "7", "+", "P", "T", "X">>, <<"8", ".", "9", "+", "P", "T", "X">>,
      <<"9", ".", "0", "+", "P", "T", "X">> }

\* the forms of the generations that need nvcc 12.4
Forms89 == { <<"8", ".", "9">>, <<"8", ".", "9", "+", "P", "T", "X">> }

Forms90 == { <<"9", ".", "0">>, <<"9", ".", "0", "+", "P", "T", "X">> }

\* the statements after the check that some architecture was resolved
PastResolution ==
    { "validate", "flags", "run_sm80", "run_sm89", "run_sm90", "sources",
      "sources_sm90", "qattn", "fused", "setup", "done" }

PastValidation == PastResolution \ {"validate"}

PastFlags == PastValidation \ {"flags"}

PastSources == {"qattn", "fused", "setup", "done"}

ResolutionErrors ==
    { "None of the CUDA architectures is supported",
      "GPUs with compute capability below 8.0 are not supported",
      "No GPUs found" }

ValidationErrors ==
    { "CUDA 12.0 or higher is required",
      "CUDA 12.4 or higher is required for compute capability 8.9",
      "CUDA 12.4 or higher is required for compute capability 9.0" }

\* the override variable was read and was set
OverridePresent ==
    /\ pc \notin {"cuda_home", "get_torch_arch_list"}
    /\ env_arch_list /= None

\* the override variable was read and was not set
OverrideAbsent ==
    /\ pc \notin {"cuda_home", "get_torch_arch_list"}
    /\ err /= "Cannot find CUDA_HOME"
    /\ env_arch_list = None

IsDelimiter(c) == c \in {" ", ";"}

\* the positions that bound the entries of an override string: its
\* delimiters, and the positions before its first and after its last character
Bounds(s) == {0, Len(s) + 1} \cup {k \in 1..Len(s) : IsDelimiter(s[k])}

\* the entries of an override string: what lies between two neighbouring bounds
EntriesOf(s) ==
    { SubSeq(s, ab[1] + 1, ab[2] - 1) :
        ab \in { xy \in Bounds(s) \X Bounds(s) :
                    /\ xy[1] < xy[2]
                    /\ \A k \in Bounds(s) : ~(xy[1] < k /\ k < xy[2]) } }

\* C1: in every pass past architecture resolution the resolved set is
\* non-empty and every element of it is in the catalog, whether it came from
\* the override or from probing.
C1_ResolvedInCatalog ==
    pc \in PastResolution =>
        /\ compute_capabilities /= {}
        /\ compute_capabilities \subseteq Catalog

AtLeast(version, major, minor) ==
    version[1] > major \/ (version[1] = major /\ version[2] >= minor)

\* the version meets the global and every per-architecture minimum
MeetsMinimums(version, capabilities) ==
    /\ AtLeast(version, 12, 0)
    /\ capabilities \cap (Forms89 \cup Forms90) /= {} => AtLeast(version, 12, 4)

\* C3: the pass gets past toolchain validation if and only if the version is
\* at least 12.0 and, with 8.9 or 9.0 resolved, at least 12.4; otherwise it
\* aborts with a validation error.
C3_ValidationGate ==
    /\ pc \in PastValidation =>
            MeetsMinimums(nvcc_cuda_version, compute_capabilities)
    /\ err \in ValidationErrors =>
            /\ pc = "error"
            /\ ~MeetsMinimums(nvcc_cuda_version, compute_capabilities)
    /\ pc = "error" /\ nvcc_cuda_version /= NoVersion /\ compute_capabilities /= {}
            => err \in ValidationErrors

\* 12.4 with {8.9, 9.0} got past validation
C3_Witness ==
    /\ pc = "flags"
    /\ nvcc_cuda_version = <<12, 4>>
    /\ compute_capabilities = {<<"8", ".", "9">>, <<"9", ".", "0">>}

\* C4: after flag assembly -DHAS_SM90 occurs in the compile flags exactly
\* once when generation 9.0 is resolved in any form, and not at all otherwise.
C4_FeatureFlagOnce ==
    pc \in PastFlags =>
        Count(CXX_FLAGS, <<"-DHAS_SM90">>) =
            IF compute_capabilities \cap Forms90 /= {} THEN 1 ELSE 0

\* the code of a character of a file name
Ord(c) ==
    CASE c = "." -> 46 [] c = "/" -> 47 [] c = "a" -> 97 [] c = "b" -> 98
      [] c = "c" -> 99 [] c = "g" -> 103 [] c = "h" -> 104 [] c = "p" -> 112
      [] c = "u" -> 117 [] c = "y" -> 121

RECURSIVE LexLess(_, _)
\* s comes strictly before t in lexicographic order
LexLess(s, t) ==
    IF t = <<>> THEN FALSE
    ELSE IF s = <<>> THEN TRUE
    ELSE IF Head(s) = Head(t) THEN LexLess(Tail(s), Tail(t))
    ELSE Ord(Head(s)) < Ord(Head(t))

\* an entry of the source list that came from a bucket: bucket, "/", path
IsInstantiation(source) == Len(source) > 2 /\ source[1] \in Buckets

BucketOf(source) == source[1]

RelativePath(source) == SubSeq(source, 3, Len(source))

BucketRank(bucket) == CASE bucket = SM80 -> 1 [] bucket = SM89 -> 2 [] bucket = SM90 -> 3

\* C5: the discovered sources are the per-bucket lists in the order sm80,
\* sm89, sm90, each bucket sorted lexicographically by path relative to the
\* bucket root, so that the list does not depend on the order in which the
\* file system enumerates the files.
C5_SourcesSorted ==
    pc \in PastSources =>
        \A p, q \in 1..Len(sources) :
            (p < q /\ IsInstantiation(sources[p]) /\ IsInstantiation(sources[q])) =>
                \/ BucketRank(BucketOf(sources[p])) < BucketRank(BucketOf(sources[q]))
                \/ /\ BucketOf(sources[p]) = BucketOf(sources[q])
                   /\ LexLess(RelativePath(sources[p]), RelativePath(sources[q]))

\* some generator run so far ended with a non-zero exit status
GeneratorFailed == \E k \in 1..Len(ran) : ran[k].status /= 0

\* C6: a generator that exits non-zero fails the pass at that point: it is
\* the last generator run, no source is enumerated and no target assembled.
C6_GeneratorFailureAborts ==
    GeneratorFailed =>
        /\ pc = "error"
        /\ ran[Len(ran)].status /= 0
        /\ \A k \in 1..(Len(ran) - 1) : ran[k].status = 0
        /\ sources = <<>>
        /\ ext_modules = <<>>
        /\ ~setup_called

\* the end-to-end input: override "8.0", nvcc 12.1
EndToEndInput ==
    /\ env_arch_list = <<"8", ".", "0">>
    /\ nvcc_cuda_version = <<12, 1>>

Pair80 == <<"arch=compute_", "8", "0", ",code=sm_", "8", "0">>

\* the flag list holds -gencode followed by the pair
HasGencode(flags, pair) ==
    \E k \in 1..(Len(flags) - 1) : flags[k] = <<"-gencode">> /\ flags[k + 1] = pair

\* a source of generation 9.0: the sm90 base source or an sm90 instantiation
IsSm90Source(source) ==
    \/ source = <<"csrc/qattn/qk_int_sv_f8_cuda_sm90.cu">>
    \/ source[1] = "csrc/qattn/instantiations_sm90"

\* what the end-to-end claim says of one target
TargetFor80(target) ==
    /\ HasGencode(target.nvcc, Pair80)
    /\ Count(target.cxx, <<"-DHAS_SM90">>) = 0
    /\ \A k \in 1..Len(target.sources) : ~IsSm90Source(target.sources[k])

\* the pass on the end-to-end input raises nothing and can always go on
\* until setup() was called
EndToEndCompletes ==
    EndToEndInput =>
        /\ err = "none"
        /\ pc /= "error"
        /\ pc /= "done" => ENABLED Next
        /\ pc = "done" => setup_called

\* C7 as stated: override "8.0" with nvcc 12.1 completes and assembles
\* exactly one target, with the 8.0 pair, without the feature flag and
\* without generation-9.0 sources.
C7_ExactlyOneTarget ==
    /\ EndToEndCompletes
    /\ (EndToEndInput /\ pc = "done") =>
            /\ Len(ext_modules) = 1
            /\ \A k \in 1..Len(ext_modules) : TargetFor80(ext_modules[k])

\* C7 amended: override "8.0" with nvcc 12.1 completes and assembles exactly
\* two targets, spas_sage_attn._qattn and spas_sage_attn._fused; each has the
\* 8.0 pair in its device flags, no feature flag in its compile flags and no
\* generation-9.0 source.
C7_TwoTargets ==
    /\ EndToEndCompletes
    /\ (EndToEndInput /\ pc = "done") =>
            /\ Len(ext_modules) = 2
            /\ ext_modules[1].name = "spas_sage_attn._qattn"
            /\ ext_modules[2].name = "spas_sage_attn._fused"
            /\ \A k \in 1..Len(ext_modules) : TargetFor80(ext_modules[k])

\* the end-to-end pass finished, one generator having written every file
C7_Witness ==
    /\ EndToEndInput
    /\ pc = "done"
    /\ Len(ext_modules[1].sources) > 3

\* the position of the first occurrence of character c in s, 0 if none
IndexOf(s, c) ==
    IF \E k \in 1..Len(s) : s[k] = c
    THEN CHOOSE k \in 1..Len(s) : s[k] = c /\ \A j \in 1..(k - 1) : s[j] /= c
    ELSE 0

\* the architecture has includePTX set
IncludesPTX(capability) == IndexOf(capability, "+") /= 0

\* the digits of the major version of "M.m" or "M.m+PTX"
MajorDigits(capability) == SubSeq(capability, 1, IndexOf(capability, ".") - 1)

\* the digits of its minor version
MinorDigits(capability) ==
    SubSeq(capability, IndexOf(capability, ".") + 1,
           IF IncludesPTX(capability)
           THEN IndexOf(capability, "+") - 1
           ELSE Len(capability))

\* the identifier of an architecture: "90a" for 9.0, the digits "Mm" otherwise
Identifier(capability) ==
    IF MajorDigits(capability) = <<"9">> /\ MinorDigits(capability) = <<"0">>
    THEN <<"9", "0", "a">>
    ELSE MajorDigits(capability) \o MinorDigits(capability)

\* how often the flag list holds -gencode followed by the pair
CountGencode(flags, pair) ==
    Cardinality({k \in 1..(Len(flags) - 1) :
                    flags[k] = <<"-gencode">> /\ flags[k + 1] = pair})

\* C8: flag assembly adds, for each resolved architecture, the pair
\* arch=compute_X,code=sm_X with X its identifier, and the pair
\* arch=compute_X,code=compute_X if and only if it has includePTX set.
C8_GencodePairs ==
    pc \in PastFlags =>
        \A c \in compute_capabilities :
            LET X == Identifier(c)
                same == {d \in compute_capabilities : Identifier(d) = X}
            IN /\ CountGencode(NVCC_FLAGS,
                        <<"arch=compute_">> \o X \o <<",code=sm_">> \o X)
                    = Cardinality(same)
               /\ CountGencode(NVCC_FLAGS,
                        <<"arch=compute_">> \o X \o <<",code=compute_">> \o X)
                    = Cardinality({d \in same : IncludesPTX(d)})

\* the same statement of the passes whose architectures are all in the catalog
GencodePairsInCatalog == compute_capabilities \subseteq Catalog => C8_GencodePairs

\* the text of a probed capability pair, without PTX
PairText(pair) ==
    CASE pair = <<7, 5>> -> <<"7", ".", "5">>
      [] pair = <<8, 0>> -> <<"8", ".", "0">>
      [] pair = <<8, 9>> -> <<"8", ".", "9">>
      [] pair = <<9, 0>> -> <<"9", ".", "0">>
      [] pair = <<10, 0>> -> <<"1", "0", ".", "0">>

\* the probing loop is over: it ran to its end or raised
ProbingOver == OverrideAbsent /\ pc \notin {"device_count", "probe"}

\* C9: with the override absent the local devices are probed: no device
\* fails the pass, a device with a major version below 8 fails the pass
\* whatever the other devices are, and otherwise the resolved set is exactly
\* the probed capability pairs, each without PTX.
C9_ProbeResolution ==
    ProbingOver =>
        IF devices = <<>>
        THEN /\ pc \in {"nvcc", "check_gpus", "error"}
             /\ compute_capabilities = {}
             /\ pc = "error" /\ nvcc_cuda_version /= NoVersion => err = "No GPUs found"
        ELSE IF \E k \in 1..Len(devices) : devices[k][1] < 8
        THEN /\ pc = "error"
             /\ err = "GPUs with compute capability below 8.0 are not supported"
        ELSE /\ compute_capabilities = {PairText(devices[k]) : k \in 1..Len(devices)}
             /\ err \notin ResolutionErrors

\* a supported device followed by an unsupported one: the pass failed
C9_Witness ==
    /\ ProbingOver
    /\ devices = << <<8, 0>>, <<7, 5>> >>
    /\ pc = "error"
    /\ err = "GPUs with compute capability below 8.0 are not supported"

\* a step has failed: an exception was raised or a generator exited non-zero
StepFailed == err /= "none" \/ GeneratorFailed

\* resolution and validation have both succeeded
Validated ==
    /\ pc \in PastValidation
    /\ compute_capabilities /= {}
    /\ nvcc_cuda_version /= NoVersion
    /\ MeetsMinimums(nvcc_cuda_version, compute_capabilities)

\* the order of the statements of the pass
Stage(at) ==
    CASE at = "cuda_home" -> 1 [] at = "get_torch_arch_list" -> 2
      [] at = "device_count" -> 3 [] at = "probe" -> 4 [] at = "nvcc" -> 5
      [] at = "check_gpus" -> 6 [] at = "validate" -> 7 [] at = "flags" -> 8
      [] at = "run_sm80" -> 9 [] at = "run_sm89" -> 10 [] at = "run_sm90" -> 11
      [] at = "sources" -> 12 [] at = "sources_sm90" -> 13 [] at = "qattn" -> 14
      [] at = "fused" -> 15 [] at = "setup" -> 16 [] at = "done" -> 17
      [] at = "error" -> 18

\* the gate alone: generators, source enumeration and target assembly happen
\* only after resolution and validation succeeded, and the statements run in
\* order
FailFastGate ==
    [][ /\ (ran' /= ran \/ sources' /= sources \/ ext_modules' /= ext_modules)
            => Validated
        /\ Stage(pc') >= Stage(pc)
        /\ err /= "none" => FALSE ]_vars

\* C10: the steps run in dependency order behind the gate (no generator runs,
\* no source is enumerated and no target is assembled before resolution and
\* validation succeeded), and once any step has failed no later step runs.
C10_OrderedFailFast ==
    [][ /\ (ran' /= ran \/ sources' /= sources \/ ext_modules' /= ext_modules)
            => Validated
        /\ Stage(pc') >= Stage(pc)
        /\ ~StepFailed ]_vars

====
